---- MODULE Spec2Model ----
(***************************************************************************)
(* Pooled-ride matching engine of tadia: findBestMatch and its helpers     *)
(* (matchingAlgorithm), the routing call getRoute, and the booking state   *)
(* kept by useAppState (createBooking, cancelBooking, startTrip,           *)
(* completeTrip).                                                          *)
(*                                                                         *)
(* Times are integers in seconds since the start of the booking day; the   *)
(* code keeps them as ISO strings / Date objects with millisecond          *)
(* precision, and every quantity it adds is a whole number of seconds or   *)
(* minutes, so the conversions are exact.  differenceInMinutes(a, b) > m   *)
(* is written (a - b) > m * 60.                                            *)
(***************************************************************************)
EXTENDS Integers, Sequences, FiniteSets, TLC

\* ------------------------------------------------------------------ bounds
\* Total number of createBooking calls in one behaviour.
MaxCalls == 2

\* createBooking calls in a run of the single-session system that follows
\* the trips' stop lists over successive bookings.
MaxChain == 3

\* ------------------------------------------------------- program constants
seatsPerVehicle == 8
maxDetourMinutes == 8
minutesPerStop == 2
bufferMinutes == 5
\* findBestMatch: trips departing later than requested pickup + 30 min, or
\* ending earlier than requested pickup - 30 min, are skipped.
PruneMinutes == 30
\* evaluateInsertion: computed pickup within 15 min of the requested pickup.
ProximityMinutes == 15
\* The booking wizard offers pickup times on a 15 minute grid.
SlotMinutes == 15

\* Ids of DEFAULT_VEHICLES in fleet order; the fleet is its first
\* vehicleCount entries.
VehicleIds == <<"v1", "v2">>
\* Configured fleet sizes.
VehicleCounts == {1, 2}

\* null / undefined (times and ids of the model are never negative).
Null == -1
\* An absent vehicleId.
NoVehicle == ""

\* --------------------------------------------------------------- inputs
Locs == {"A", "B"}
\* Requested pickup times offered by the wizard (seconds).
ReqTimes == {0, SlotMinutes * 60, 2 * SlotMinutes * 60}
\* Travel time in seconds between two distinct places, as answered by the
\* routing service during one findBestMatch call.
Durs == {600, 780}

\* ------------------------------------------------------------- timeUtils
addMinutes(t, m) == t + m * 60

addSeconds(t, s) == t + s

\* differenceInMinutes, kept in seconds: the caller compares it with a
\* threshold scaled by 60.
differenceInSeconds(later, earlier) == later - earlier

Abs(x) == IF x < 0 THEN -x ELSE x

\* Math.ceil(s / 60) for s >= 0
CeilMinutes(s) == (s + 59) \div 60

\* ------------------------------------------------------------ sequences
RECURSIVE SumSeq(_)
SumSeq(s) == IF s = <<>> THEN 0 ELSE Head(s) + SumSeq(Tail(s))

RECURSIVE InsertStop(_, _)
\* Insert x into the sorted sequence s after every stop whose sequence is
\* not greater (Array.prototype.sort is stable).
InsertStop(x, s) ==
  IF s = <<>> THEN <<x>>
  ELSE IF Head(s).sequence <= x.sequence
       THEN <<Head(s)>> \o InsertStop(x, Tail(s))
       ELSE <<x>> \o s

RECURSIVE sortStopsBySequence(_)
\* [...trip.stops].sort((a, b) => a.sequence - b.sequence)
sortStopsBySequence(s) ==
  IF s = <<>> THEN <<>>
  ELSE InsertStop(s[Len(s)], sortStopsBySequence(SubSeq(s, 1, Len(s) - 1)))

RECURSIVE InsertTrip(_, _)
InsertTrip(x, s) ==
  IF s = <<>> THEN <<x>>
  ELSE IF Head(s).departureTime <= x.departureTime
       THEN <<Head(s)>> \o InsertTrip(x, Tail(s))
       ELSE <<x>> \o s

RECURSIVE sortTripsByDeparture(_)
\* .sort((a, b) => departure(a) - departure(b))
sortTripsByDeparture(s) ==
  IF s = <<>> THEN <<>>
  ELSE InsertTrip(s[Len(s)], sortTripsByDeparture(SubSeq(s, 1, Len(s) - 1)))

\* Array.prototype.filter
RECURSIVE FilterSeq(_, _)
FilterSeq(s, keep) ==
  IF s = <<>> THEN <<>>
  ELSE IF Head(s) \in keep THEN <<Head(s)>> \o FilterSeq(Tail(s), keep)
       ELSE FilterSeq(Tail(s), keep)

Range(s) == {s[i] : i \in 1..Len(s)}

\* ------------------------------------------------------------- getRoute
\* The routing service, as seen by one findBestMatch call: o.d is the
\* travel time between distinct places, and the o.fail* fields say which
\* requests fail (service not initialised, no route, or an exception).
LegSecs(a, b, o) == IF a = b THEN 0 ELSE o.d

RouteFails(key, o) ==
  \/ key[1] = "full"   /\ <<key[2], key[3]>> \in o.failFull
  \/ key[1] = "direct" /\ o.failDirect
  \/ key[1] = "new"    /\ o.failNew
  \/ key[1] = "travel" /\ o.failTravel

\* getRoute(origin, destination, waypoints) over the ordered point list;
\* key names the call site.
getRoute(points, key, o) ==
  IF RouteFails(key, o)
  THEN [ok |-> FALSE, duration |-> 0, legs |-> <<>>]
  ELSE LET legs == [i \in 1..(Len(points) - 1) |->
                      LegSecs(points[i], points[i + 1], o)]
       IN [ok |-> TRUE, duration |-> SumSeq(legs), legs |-> legs]

\* ----------------------------------------------------- evaluateInsertion
Rejected == [ok |-> FALSE]

\* The stop list with the new pickup and dropoff spliced in and fresh
\* sequence numbers (the "rebuild with correct sequencing" loop and the
\* trailing "dropoff is at the end" case).  Positions are 0-based as in the
\* code; existing[i + 1] is existingStops[i].
RECURSIVE RebuildFrom(_, _, _, _, _, _)
RebuildFrom(i, existing, pickupPos, dropoffPos, newPickupStop, newDropoffStop) ==
  IF i > Len(existing) THEN <<>>
  ELSE (IF i = pickupPos THEN <<newPickupStop>> ELSE <<>>)
       \o (IF i = dropoffPos THEN <<newDropoffStop>> ELSE <<>>)
       \o (IF i < Len(existing) THEN <<existing[i + 1]>> ELSE <<>>)
       \o RebuildFrom(i + 1, existing, pickupPos, dropoffPos,
                      newPickupStop, newDropoffStop)

Resequence(stops) == [i \in 1..Len(stops) |-> [stops[i] EXCEPT !.sequence = i - 1]]

\* The spliced list with the sequence numbers its stops came with.
rebuiltStopsUnnumbered(existing, pickupPos, dropoffPos, newPickupStop, newDropoffStop) ==
  RebuildFrom(0, existing, pickupPos, dropoffPos, newPickupStop, newDropoffStop)
  \o (IF dropoffPos = Len(existing) + 1 THEN <<newDropoffStop>> ELSE <<>>)

rebuiltStops(existing, pickupPos, dropoffPos, newPickupStop, newDropoffStop) ==
  Resequence(
    RebuildFrom(0, existing, pickupPos, dropoffPos, newPickupStop, newDropoffStop)
    \o (IF dropoffPos = Len(existing) + 1 THEN <<newDropoffStop>> ELSE <<>>))

\* Scheduled time of stop i (1-based) of the rebuilt list: the clock starts
\* at the trip's departure, advances by the leg before the stop (none for
\* the first) and then by minutesPerStop.
RECURSIVE ScheduledAt(_, _, _)
ScheduledAt(i, departure, legs) ==
  IF i = 1 THEN addMinutes(departure, minutesPerStop)
  ELSE addMinutes(addSeconds(ScheduledAt(i - 1, departure, legs), legs[i - 1]),
                  minutesPerStop)

\* The rebuilt list with the times its stops came with.
updatedStopsUnscheduled(rebuilt, departure, legs) == rebuilt

updatedStops(rebuilt, departure, legs) ==
  [i \in 1..Len(rebuilt) |->
     [rebuilt[i] EXCEPT !.scheduledTime = ScheduledAt(i, departure, legs)]]

\* tripBookings.find(b => b.id === stop.bookingId)
FindBooking(tripBookings, id) ==
  IF \E k \in 1..Len(tripBookings) : tripBookings[k].id = id
  THEN LET k == CHOOSE j \in 1..Len(tripBookings) :
                  /\ tripBookings[j].id = id
                  /\ \A h \in 1..(j - 1) : tripBookings[h].id # id
       IN [found |-> TRUE, booking |-> tripBookings[k]]
  ELSE [found |-> FALSE]

\* Passenger delta of one stop in the capacity walk.
PaxAt(stop, tripBookings, request, newPickupId, newDropoffId) ==
  LET f == FindBooking(tripBookings, stop.bookingId)
      newId == IF stop.type = "pickup" THEN newPickupId ELSE newDropoffId
  IN IF f.found THEN f.booking.passengerCount
     ELSE IF stop.id = newId THEN request.passengerCount ELSE 0

\* "Check capacity at each segment": TRUE when the walk rejects.
RECURSIVE CapacityExceeded(_, _, _, _, _, _, _)
CapacityExceeded(stops, i, onBoard, tripBookings, request, newPickupId, newDropoffId) ==
  IF i > Len(stops) THEN FALSE
  ELSE LET pax == PaxAt(stops[i], tripBookings, request, newPickupId, newDropoffId)
       IN IF stops[i].type = "pickup"
          THEN \/ onBoard + pax > seatsPerVehicle
               \/ CapacityExceeded(stops, i + 1, onBoard + pax, tripBookings,
                                   request, newPickupId, newDropoffId)
          ELSE CapacityExceeded(stops, i + 1, onBoard - pax, tripBookings,
                                request, newPickupId, newDropoffId)

\* updatedStops.find(s => s.bookingId === id && s.type === 'dropoff')
DropoffStopOf(stops, id) ==
  IF \E k \in 1..Len(stops) : stops[k].bookingId = id /\ stops[k].type = "dropoff"
  THEN LET k == CHOOSE j \in 1..Len(stops) :
                  /\ stops[j].bookingId = id /\ stops[j].type = "dropoff"
                  /\ \A h \in 1..(j - 1) :
                        ~(stops[h].bookingId = id /\ stops[h].type = "dropoff")
       IN [found |-> TRUE, stop |-> stops[k]]
  ELSE [found |-> FALSE]

\* The check left out: no insertion is rejected for an existing passenger.
ExistingDetourUnchecked(stops, tripBookings) == FALSE

\* The check with twice the allowance.
ExistingDetourDoubled(stops, tripBookings) ==
  \E k \in 1..Len(tripBookings) :
     /\ DropoffStopOf(stops, tripBookings[k].id).found
     /\ differenceInSeconds(DropoffStopOf(stops, tripBookings[k].id).stop.scheduledTime,
                            tripBookings[k].estimatedDropoffTime)
          > 2 * maxDetourMinutes * 60

\* "Check detour constraint for existing passengers": TRUE when it rejects.
ExistingDetourExceeded(stops, tripBookings) ==
  \E k \in 1..Len(tripBookings) :
     LET d == DropoffStopOf(stops, tripBookings[k].id)
     IN /\ d.found
        /\ differenceInSeconds(d.stop.scheduledTime,
                               tripBookings[k].estimatedDropoffTime)
             > maxDetourMinutes * 60

\* "Check new passenger's dropoff guarantee": TRUE when it rejects.
NewDetourExceeded(request, estimatedPickupTime, estimatedDropoffTime, o) ==
  LET directRoute == getRoute(<<request.pickupLocation, request.dropoffLocation>>,
                              <<"direct">>, o)
  IN /\ directRoute.ok
     /\ differenceInSeconds(estimatedDropoffTime,
                            addSeconds(estimatedPickupTime, directRoute.duration))
          > maxDetourMinutes * 60

\* The proximity check on the late side only.
PickupTooLate(request, estimatedPickupTime) ==
  differenceInSeconds(estimatedPickupTime, request.requestedPickupTime)
    > ProximityMinutes * 60

\* "Check that pickup time is close to requested": TRUE when it rejects.
PickupTooFar(request, estimatedPickupTime) ==
  Abs(differenceInSeconds(estimatedPickupTime, request.requestedPickupTime))
    > ProximityMinutes * 60

\* First index (1-based) of the stop with the given id, 0 when absent
\* (findIndex returning -1).
IndexOfStop(stops, id) ==
  IF \E k \in 1..Len(stops) : stops[k].id = id
  THEN CHOOSE j \in 1..Len(stops) :
         stops[j].id = id /\ \A h \in 1..(j - 1) : stops[h].id # id
  ELSE 0

\* The two stops built for the request; ctr is stopCounter before them.
newPickupStopOf(request, pickupPos, ctr) ==
  [id |-> ctr + 1, location |-> request.pickupLocation, type |-> "pickup",
   bookingId |-> 0, scheduledTime |-> request.requestedPickupTime,
   sequence |-> pickupPos]

newDropoffStopOf(request, dropoffPos, ctr) ==
  [id |-> ctr + 2, location |-> request.dropoffLocation, type |-> "dropoff",
   bookingId |-> 0, scheduledTime |-> Null, sequence |-> dropoffPos]

\* rebuiltStops.map(s => s.location)
routePointsOf(rebuilt) == [i \in 1..Len(rebuilt) |-> rebuilt[i].location]

\* evaluateInsertion from the lookup of the new stops in updatedStops on:
\* capacity, both detour checks, pickup proximity, and the candidate.
evaluateScheduled(trip, tripBookings, request, pickupPos, dropoffPos, existingPassengerCount, o, ctr, routeResult, updated) ==
  LET newPickupIdx == IndexOfStop(updated, ctr + 1)
      newDropoffIdx == IndexOfStop(updated, ctr + 2)
      estimatedPickupTime == updated[newPickupIdx].scheduledTime
      estimatedDropoffTime == updated[newDropoffIdx].scheduledTime
  IN IF newPickupIdx = 0 \/ newDropoffIdx = 0 THEN Rejected
     ELSE IF CapacityExceeded(updated, 1, 0, tripBookings, request,
                              ctr + 1, ctr + 2) THEN Rejected
     ELSE IF ExistingDetourExceeded(updated, tripBookings) THEN Rejected
     ELSE IF NewDetourExceeded(request, estimatedPickupTime,
                               estimatedDropoffTime, o) THEN Rejected
     ELSE IF PickupTooFar(request, estimatedPickupTime) THEN Rejected
     ELSE [ok |-> TRUE, trip |-> trip, newStops |-> updated,
           estimatedPickupTime |-> estimatedPickupTime,
           estimatedDropoffTime |-> estimatedDropoffTime,
           estimatedDuration |-> routeResult.duration,
           score |-> existingPassengerCount,
           pickupPos |-> pickupPos, dropoffPos |-> dropoffPos]

\* evaluateInsertion from the answer of the full-route request on.
evaluateRouted(trip, tripBookings, request, pickupPos, dropoffPos, existingPassengerCount, o, ctr, rebuilt, routeResult) ==
  IF ~routeResult.ok THEN Rejected
  ELSE evaluateScheduled(trip, tripBookings, request, pickupPos, dropoffPos,
                         existingPassengerCount, o, ctr, routeResult,
                         updatedStops(rebuilt, trip.departureTime,
                                      routeResult.legs))

\* evaluateInsertion from the rebuilt stop list on.
evaluateRebuilt(trip, tripBookings, request, pickupPos, dropoffPos, existingPassengerCount, o, ctr, rebuilt) ==
  IF Len(rebuilt) < 2 THEN Rejected
  ELSE evaluateRouted(trip, tripBookings, request, pickupPos, dropoffPos,
                      existingPassengerCount, o, ctr, rebuilt,
                      getRoute(routePointsOf(rebuilt),
                               <<"full", pickupPos, dropoffPos>>, o))

\* evaluateInsertion; ctr is stopCounter when the call starts (the call
\* draws two stop ids).
evaluateInsertion(trip, existingStops, tripBookings, request, pickupPos, dropoffPos, existingPassengerCount, o, ctr) ==
  evaluateRebuilt(trip, tripBookings, request, pickupPos, dropoffPos,
                  existingPassengerCount, o, ctr,
                  rebuiltStops(existingStops, pickupPos, dropoffPos,
                               newPickupStopOf(request, pickupPos, ctr),
                               newDropoffStopOf(request, dropoffPos, ctr)))

\* ----------------------------------------------------- tryInsertIntoTrip
\* Position pairs in the order of the two nested loops.
RECURSIVE PairsFrom(_, _, _)
PairsFrom(pickupPos, dropoffPos, len) ==
  IF pickupPos > len THEN <<>>
  ELSE IF dropoffPos > len + 1 THEN PairsFrom(pickupPos + 1, pickupPos + 2, len)
  ELSE <<(<<pickupPos, dropoffPos>>)>> \o PairsFrom(pickupPos, dropoffPos + 1, len)

\* The pairs in the reverse order.
PositionPairsDescending(len) ==
  [k \in 1..Len(PairsFrom(0, 1, len)) |->
     PairsFrom(0, 1, len)[Len(PairsFrom(0, 1, len)) + 1 - k]]

PositionPairs(len) == PairsFrom(0, 1, len)

\* state.bookings.filter(b => b.tripId === trip.id && b.status === 'confirmed')
tripBookingsOf(trip, bookings) ==
  FilterSeq(bookings, {b \in Range(bookings) :
                         b.tripId = trip.id /\ b.status = "confirmed"})

existingPassengerCountOf(tripBookings) ==
  SumSeq([k \in 1..Len(tripBookings) |-> tripBookings[k].passengerCount])

\* The scan of tryInsertIntoTrip from pair k on: the first accepted
\* candidate (or none), the stop counter afterwards and the number of pairs
\* evaluated.
RECURSIVE ScanPairs(_, _, _, _, _, _, _, _)

\* The scan given up at the first pair that is not accepted.
ScanFromAbort(pairs, k, trip, existingStops, tripBookings, request, o, ctr, result) ==
  [cand |-> result, ctr |-> ctr + 2, evaluated |-> k]

\* The scan after pair k has been evaluated with the given result.
ScanFrom(pairs, k, trip, existingStops, tripBookings, request, o, ctr, result) ==
  IF result.ok
  THEN [cand |-> result, ctr |-> ctr + 2, evaluated |-> k]
  ELSE ScanPairs(pairs, k + 1, trip, existingStops, tripBookings, request, o,
                 ctr + 2)

ScanPairs(pairs, k, trip, existingStops, tripBookings, request, o, ctr) ==
  IF k > Len(pairs) THEN [cand |-> Rejected, ctr |-> ctr, evaluated |-> k - 1]
  ELSE ScanFrom(pairs, k, trip, existingStops, tripBookings, request, o, ctr,
                evaluateInsertion(trip, existingStops, tripBookings, request,
                                  pairs[k][1], pairs[k][2],
                                  existingPassengerCountOf(tripBookings),
                                  o, ctr))

\* The loops of tryInsertIntoTrip over the sorted stops.
tryInsertSorted(trip, existingStops, request, bookings, o, ctr) ==
  ScanPairs(PositionPairs(Len(existingStops)), 1, trip, existingStops,
            tripBookingsOf(trip, bookings), request, o, ctr)

tryInsertIntoTrip(trip, request, bookings, o, ctr) ==
  tryInsertSorted(trip, sortStopsBySequence(trip.stops), request, bookings,
                  o, ctr)

\* -------------------------------------------------- findAvailableVehicle
\* End of a trip: its last stop's scheduled time, or its departure.
TripEnd(trip) ==
  IF Len(trip.stops) > 0 THEN trip.stops[Len(trip.stops)].scheduledTime
  ELSE trip.departureTime

NoTrip == [id |-> 0]

\* Latest trip of the sorted list ending at or before requestedTime; the
\* scan stops at the first trip that ends later.
RECURSIVE PriorFrom(_, _, _, _)
PriorFrom(sortedTrips, k, requestedTime, prior) ==
  IF k > Len(sortedTrips) THEN prior
  ELSE IF TripEnd(sortedTrips[k]) <= requestedTime
       THEN PriorFrom(sortedTrips, k + 1, requestedTime, sortedTrips[k])
       ELSE prior

\* No prior trip found.
findPriorNone(sortedTrips, requestedTime) == NoTrip

findPriorTrip(sortedTrips, requestedTime) ==
  PriorFrom(sortedTrips, 1, requestedTime, NoTrip)

\* No next trip found.
findNextNone(sortedTrips, afterTime) == NoTrip

\* First trip of the sorted list departing strictly after afterTime.
findNextTrip(sortedTrips, afterTime) ==
  IF \E k \in 1..Len(sortedTrips) : sortedTrips[k].departureTime > afterTime
  THEN sortedTrips[CHOOSE k \in 1..Len(sortedTrips) :
         /\ sortedTrips[k].departureTime > afterTime
         /\ \A h \in 1..(k - 1) : ~(sortedTrips[h].departureTime > afterTime)]
  ELSE NoTrip

Overlaps(trip, newTripStart, newTripEnd) ==
  trip.departureTime < newTripEnd /\ TripEnd(trip) > newTripStart

\* No trip found overlapping.
findOverlappingNone(sortedTrips, newTripStart, newTripEnd) == NoTrip

\* First trip of the sorted list overlapping [newTripStart, newTripEnd].
findOverlappingTrip(sortedTrips, newTripStart, newTripEnd) ==
  IF \E k \in 1..Len(sortedTrips) : Overlaps(sortedTrips[k], newTripStart, newTripEnd)
  THEN sortedTrips[CHOOSE k \in 1..Len(sortedTrips) :
         /\ Overlaps(sortedTrips[k], newTripStart, newTripEnd)
         /\ \A h \in 1..(k - 1) : ~Overlaps(sortedTrips[h], newTripStart, newTripEnd)]
  ELSE NoTrip

\* Active trips of a vehicle, sorted by departure time.
vehicleTripsOf(vehicleId, trips) ==
  sortTripsByDeparture(
    FilterSeq(trips, {t \in Range(trips) :
                        /\ t.vehicleId = vehicleId
                        /\ t.status # "completed" /\ t.status # "cancelled"}))

\* !a || b < a
EarlierOf(earliest, t) == IF earliest = Null \/ t < earliest THEN t ELSE earliest

\* End of the candidate window.
newTripEndOf(requestedTime, tripDurationSeconds) ==
  addMinutes(requestedTime, CeilMinutes(tripDurationSeconds) + minutesPerStop)

\* The iteration for a vehicle busy with overlappingTrip: the vehicle is
\* skipped, and its estimate is the trip's end + travel + buffer.
busyStep(overlappingTrip, pickupLocation, o, earliest) ==
  LET hasLast == Len(overlappingTrip.stops) > 0
      lastStop == overlappingTrip.stops[Len(overlappingTrip.stops)]
      travelRoute == getRoute(<<lastStop.location, pickupLocation>>,
                              <<"travel">>, o)
      vehicleReadyAt ==
        addMinutes(addSeconds(TripEnd(overlappingTrip), travelRoute.duration),
                   bufferMinutes)
  IN [available |-> FALSE,
      earliest |-> IF hasLast /\ travelRoute.ok
                   THEN EarlierOf(earliest, vehicleReadyAt)
                   ELSE earliest]

\* The iteration for a vehicle with no overlapping trip: the checks against
\* the prior and the next trip.
freeStep(priorTrip, nextTrip, requestedTime, newTripEnd, pickupLocation, o, earliest) ==
  LET hasPriorStop == priorTrip # NoTrip /\ Len(priorTrip.stops) > 0
      lastStop == priorTrip.stops[Len(priorTrip.stops)]
      travelRoute == getRoute(<<lastStop.location, pickupLocation>>,
                              <<"travel">>, o)
      arrival == addSeconds(lastStop.scheduledTime, travelRoute.duration)
      requiredArrivalTime == addMinutes(requestedTime, -bufferMinutes)
      late == arrival > requiredArrivalTime
      canAfterPrior ==
        IF hasPriorStop THEN travelRoute.ok /\ ~late ELSE TRUE
      vehicleArrivalTime ==
        IF hasPriorStop /\ travelRoute.ok
        THEN (IF late THEN addMinutes(arrival, bufferMinutes) ELSE arrival)
        ELSE Null
      nextConflict ==
        /\ canAfterPrior
        /\ nextTrip # NoTrip
        /\ Len(nextTrip.stops) > 0
        /\ differenceInSeconds(nextTrip.departureTime, newTripEnd)
             < bufferMinutes * 60
  IN [available |-> canAfterPrior /\ ~nextConflict,
      earliest |-> IF vehicleArrivalTime # Null
                   THEN EarlierOf(earliest, vehicleArrivalTime)
                   ELSE earliest]

\* One iteration of the vehicle loop over the vehicle's sorted active trips.
stepOnTrips(vehicleTrips, overlappingTrip, requestedTime, newTripEnd, pickupLocation, o, earliest) ==
  IF overlappingTrip # NoTrip
  THEN busyStep(overlappingTrip, pickupLocation, o, earliest)
  ELSE freeStep(findPriorTrip(vehicleTrips, requestedTime),
                findNextTrip(vehicleTrips, newTripEnd),
                requestedTime, newTripEnd, pickupLocation, o, earliest)

overlapStep(vehicleTrips, requestedTime, newTripEnd, pickupLocation, o, earliest) ==
  stepOnTrips(vehicleTrips,
              findOverlappingTrip(vehicleTrips, requestedTime, newTripEnd),
              requestedTime, newTripEnd, pickupLocation, o, earliest)

\* One iteration of the vehicle loop: whether the vehicle is returned, and
\* earliestArrivalTime after it.
VehicleStep(vehicleId, requestedTime, newTripEnd, pickupLocation, trips, o, earliest) ==
  overlapStep(vehicleTripsOf(vehicleId, trips), requestedTime, newTripEnd,
              pickupLocation, o, earliest)

RECURSIVE VehicleLoop(_, _, _, _, _, _, _, _)

\* The loop returning the last available vehicle of the list.
loopAfterLast(vehicles, k, requestedTime, newTripEnd, pickupLocation, trips, o, step) ==
  IF step.available
     /\ VehicleLoop(vehicles, k + 1, requestedTime, newTripEnd, pickupLocation,
                    trips, o, step.earliest).vehicle = Null
  THEN [vehicle |-> k, earliestAvailableTime |-> Null]
  ELSE VehicleLoop(vehicles, k + 1, requestedTime, newTripEnd, pickupLocation,
                   trips, o, step.earliest)

\* The loop after the iteration of vehicle k.
loopAfter(vehicles, k, requestedTime, newTripEnd, pickupLocation, trips, o, step) ==
  IF step.available
  THEN [vehicle |-> k, earliestAvailableTime |-> Null]
  ELSE VehicleLoop(vehicles, k + 1, requestedTime, newTripEnd, pickupLocation,
                   trips, o, step.earliest)

VehicleLoop(vehicles, k, requestedTime, newTripEnd, pickupLocation, trips, o, earliest) ==
  IF k > Len(vehicles)
  THEN [vehicle |-> Null, earliestAvailableTime |-> earliest]
  ELSE loopAfter(vehicles, k, requestedTime, newTripEnd, pickupLocation,
                 trips, o,
                 VehicleStep(vehicles[k].id, requestedTime, newTripEnd,
                             pickupLocation, trips, o, earliest))

\* findAvailableVehicle: vehicle is the index in the fleet list of the
\* vehicle returned (Null for none).
findAvailableVehicle(requestedTime, tripDurationSeconds, pickupLocation, vehicles, trips, o) ==
  VehicleLoop(vehicles, 1, requestedTime,
              newTripEndOf(requestedTime, tripDurationSeconds),
              pickupLocation, trips, o, Null)

\* --------------------------------------------------------- findBestMatch
\* The test with the lower limit placed 30 minutes after the requested
\* pickup instead of before it.
TimeCompatibleLate(trip, requestedPickup) ==
  /\ ~(trip.departureTime > addMinutes(requestedPickup, PruneMinutes))
  /\ ~(TripEnd(trip) < addMinutes(requestedPickup, PruneMinutes))

\* No trip skipped for its times.
TimeCompatibleAlways(trip, requestedPickup) == TRUE

\* The time-compatibility test of the trip loop (FALSE: skip_trip).
TimeCompatible(trip, requestedPickup) ==
  /\ ~(trip.departureTime > addMinutes(requestedPickup, PruneMinutes))
  /\ ~(TripEnd(trip) < addMinutes(requestedPickup, -PruneMinutes))

\* What the loop did with one trip it tried: the number of position pairs
\* evaluated and, when one was accepted, that pair and its pickup time.
scanRecord(trip, r) ==
  [tripId |-> trip.id, evaluated |-> r.evaluated, accepted |-> r.cand.ok,
   pickupPos |-> IF r.cand.ok THEN r.cand.pickupPos ELSE Null,
   dropoffPos |-> IF r.cand.ok THEN r.cand.dropoffPos ELSE Null,
   score |-> IF r.cand.ok THEN r.cand.score ELSE Null,
   estimatedPickupTime |-> IF r.cand.ok THEN r.cand.estimatedPickupTime ELSE Null]

\* The candidates with the one of trip k, if any, pushed first.
pushCandidate(trip, r, rest) ==
  [candidates |-> (IF r.cand.ok THEN <<r.cand>> ELSE <<>>) \o rest.candidates,
   ctr |-> rest.ctr,
   scans |-> <<scanRecord(trip, r)>> \o rest.scans]

\* The loop over plannedTrips from trip k on: the candidates pushed, in
\* order, the stop counter afterwards, and the record of the trips tried.
RECURSIVE CollectCandidates(_, _, _, _, _, _)

\* The loop after tryInsertIntoTrip has returned r for trip k.
collectAfter(plannedTrips, k, request, bookings, o, r) ==
  pushCandidate(plannedTrips[k], r,
                CollectCandidates(plannedTrips, k + 1, request, bookings, o,
                                  r.ctr))

CollectCandidates(plannedTrips, k, request, bookings, o, ctr) ==
  IF k > Len(plannedTrips)
  THEN [candidates |-> <<>>, ctr |-> ctr, scans |-> <<>>]
  ELSE IF ~TimeCompatible(plannedTrips[k], request.requestedPickupTime)
  THEN CollectCandidates(plannedTrips, k + 1, request, bookings, o, ctr)
  ELSE collectAfter(plannedTrips, k, request, bookings, o,
                    tryInsertIntoTrip(plannedTrips[k], request, bookings, o, ctr))

\* The candidate pushed first, whatever the scores.
bestMatchUnsorted(candidates) == candidates[1]

\* candidates.sort((a, b) => b.score - a.score)[0]: the first candidate,
\* in push order, among those with the highest score.
bestMatchOf(candidates) ==
  candidates[CHOOSE k \in 1..Len(candidates) :
    /\ \A h \in 1..Len(candidates) : candidates[h].score <= candidates[k].score
    /\ \A h \in 1..(k - 1) : candidates[h].score < candidates[k].score]

MatchResult(type, tripId, vehicleId, pickupTime, dropoffTime, duration, newStops, reason, earliest) ==
  [type |-> type, tripId |-> tripId, vehicleId |-> vehicleId,
   estimatedPickupTime |-> pickupTime, estimatedDropoffTime |-> dropoffTime,
   estimatedDuration |-> duration, newStops |-> newStops,
   reason |-> reason, earliestAvailableTime |-> earliest]

\* The descriptor with the dropoff scheduled at the pickup time.
newTripStopsUntimed(request, pickupTime, dropoffTime, ctr) ==
  << [id |-> ctr + 1, location |-> request.pickupLocation, type |-> "pickup",
      bookingId |-> 0, scheduledTime |-> pickupTime, sequence |-> 0],
     [id |-> ctr + 2, location |-> request.dropoffLocation, type |-> "dropoff",
      bookingId |-> 0, scheduledTime |-> pickupTime, sequence |-> 1] >>

\* The two-stop descriptor of a new trip; ctr is stopCounter before it.
newTripStops(request, pickupTime, dropoffTime, ctr) ==
  << [id |-> ctr + 1, location |-> request.pickupLocation, type |-> "pickup",
      bookingId |-> 0, scheduledTime |-> pickupTime, sequence |-> 0],
     [id |-> ctr + 2, location |-> request.dropoffLocation, type |-> "dropoff",
      bookingId |-> 0, scheduledTime |-> dropoffTime, sequence |-> 1] >>

\* Step 2 of findBestMatch: the pool result for the best candidate.
poolResult(bestMatch, ctr) ==
  [result |-> MatchResult("pool", bestMatch.trip.id, bestMatch.trip.vehicleId,
                          bestMatch.estimatedPickupTime,
                          bestMatch.estimatedDropoffTime,
                          bestMatch.estimatedDuration, bestMatch.newStops,
                          "", Null),
   ctr |-> ctr, directRequested |-> FALSE, resolverConsulted |-> FALSE]

\* Steps 3 and 4 after findAvailableVehicle has returned: a new trip on the
\* vehicle found, or the rejection with the earliest time.
newOrRejected(request, vehicles, routeResult, availabilityResult, ctr) ==
  LET requestedPickup == request.requestedPickupTime
      dropoffTime == addSeconds(requestedPickup, routeResult.duration)
      earliestTime == availabilityResult.earliestAvailableTime
  IN IF availabilityResult.vehicle # Null
     THEN [result |-> MatchResult("new", Null,
                                  vehicles[availabilityResult.vehicle].id,
                                  requestedPickup, dropoffTime,
                                  routeResult.duration,
                                  newTripStops(request, requestedPickup,
                                               dropoffTime, ctr),
                                  "", Null),
           ctr |-> ctr + 2, directRequested |-> TRUE,
           resolverConsulted |-> TRUE]
     ELSE [result |-> MatchResult("rejected", Null, NoVehicle, Null, Null, Null,
                                  <<>>,
                                  IF earliestTime # Null
                                  THEN "No vehicle available. Earliest available"
                                  ELSE "No vehicle available for this time slot",
                                  earliestTime),
           ctr |-> ctr, directRequested |-> TRUE,
           resolverConsulted |-> TRUE]

\* Step 3 going on to the vehicles whatever the direct route answered.
newTripPathUnrouted(request, vehicles, trips, o, ctr, routeResult) ==
  newOrRejected(request, vehicles, routeResult,
                findAvailableVehicle(request.requestedPickupTime,
                                     routeResult.duration,
                                     request.pickupLocation, vehicles,
                                     trips, o),
                ctr)

\* Step 3 after the direct route has been requested.
newTripPath(request, vehicles, trips, o, ctr, routeResult) ==
  IF ~routeResult.ok
  THEN [result |-> MatchResult("rejected", Null, NoVehicle, Null, Null, Null,
                               <<>>, "Could not calculate route", Null),
        ctr |-> ctr, directRequested |-> TRUE, resolverConsulted |-> FALSE]
  ELSE newOrRejected(request, vehicles, routeResult,
                     findAvailableVehicle(request.requestedPickupTime,
                                          routeResult.duration,
                                          request.pickupLocation, vehicles,
                                          trips, o),
                     ctr)

\* Steps 2 to 4 of findBestMatch.
resultAfterScan(request, vehicles, trips, o, scan) ==
  IF Len(scan.candidates) > 0
  THEN poolResult(bestMatchOf(scan.candidates), scan.ctr)
  ELSE newTripPath(request, vehicles, trips, o, scan.ctr,
                   getRoute(<<request.pickupLocation, request.dropoffLocation>>,
                            <<"new">>, o))

\* The return of findBestMatch together with the record of the trips tried.
withScans(m, scans) ==
  [result |-> m.result, ctr |-> m.ctr, directRequested |-> m.directRequested,
   resolverConsulted |-> m.resolverConsulted, scans |-> scans]

\* findBestMatch after the loop over the planned trips.
matchAfterScan(request, vehicles, trips, o, scan) ==
  withScans(resultAfterScan(request, vehicles, trips, o, scan), scan.scans)

\* findBestMatch(request, state, config) against the routing answers o,
\* with stopCounter = ctr when it starts.  result is the MatchResult; ctr
\* is stopCounter when it returns; directRequested and resolverConsulted
\* record whether the new-trip path asked for the direct route and called
\* findAvailableVehicle; scans records the trips tried for insertion.
findBestMatch(request, vehicles, trips, bookings, o, ctr) ==
  matchAfterScan(request, vehicles, trips, o,
                 CollectCandidates(
                   FilterSeq(trips, {t \in Range(trips) : t.status = "planned"}),
                   1, request, bookings, o, ctr))

\* ------------------------------------------------------------ the state
VARIABLES
  vehicles,       \* state.vehicles
  trips,          \* state.trips
  bookings,       \* state.bookings
  stopCounter,    \* idGenerator: stopCounter
  tripCounter,    \* idGenerator: tripCounter
  bookingCounter, \* idGenerator: bookingCounter
  calls,          \* per session: the createBooking call awaiting its commit
  probe,          \* the direct findBestMatch call that has just returned
  callCount       \* createBooking calls so far

vars == <<vehicles, trips, bookings, stopCounter, tripCounter, bookingCounter,
          calls, probe, callCount>>

\* Sessions that may be inside createBooking at the same time.
Callers == {"c1", "c2"}

Idle == [phase |-> "idle"]

NoFailure(d) == [d |-> d, failFull |-> {}, failDirect |-> FALSE,
                 failNew |-> FALSE, failTravel |-> FALSE]

\* Every position pair of a trip of up to MaxCalls bookings.
AllPairs == (0..(2 * MaxCalls)) \X (1..(2 * MaxCalls + 1))

\* Answers of the routing service during one findBestMatch call in which
\* some requests fail: full-route requests of some position pairs, the
\* direct-route request together with the first pair's full route, the
\* new-trip route, the travel route, or every request.
FailingOracles ==
  {[NoFailure(600) EXCEPT !.failFull = f] :
      f \in {{<<0, 1>>}, {<<0, 1>>, <<0, 2>>, <<0, 3>>}, AllPairs}}
  \cup {[NoFailure(300) EXCEPT !.failFull = {<<0, 1>>}, !.failDirect = TRUE],
        [NoFailure(600) EXCEPT !.failNew = TRUE],
        [NoFailure(600) EXCEPT !.failTravel = TRUE],
        [d |-> 600, failFull |-> AllPairs, failDirect |-> TRUE,
         failNew |-> TRUE, failTravel |-> TRUE]}

Request(pickup, dropoff, time, count) ==
  [pickupLocation |-> pickup, dropoffLocation |-> dropoff,
   requestedPickupTime |-> time, passengerCount |-> count]

\* Requests the booking wizard submits: the rider chooses a pickup slot and
\* 1..seatsPerVehicle passengers.
WizardRequests ==
  {Request("A", "B", 0, 1),
   Request("A", "B", 2 * SlotMinutes * 60, seatsPerVehicle)}

\* Routing answers while a booking is created.
WizardOracles == {NoFailure(600)}

\* Direct calls of findBestMatch: requests of one passenger with the routing
\* service answering every request, a request of one passenger more than a
\* vehicle seats, and a request with some routing requests failing.
EngineProbes ==
  (({Request("A", "B", t, 1) : t \in ReqTimes}
   \cup {Request("B", "A", t, 1) : t \in ReqTimes})
   \X {NoFailure(d) : d \in Durs})
  \cup {<<Request("A", "B", 0, seatsPerVehicle + 1), NoFailure(600)>>}
  \cup ({Request("B", "A", SlotMinutes * 60, 1)} \X FailingOracles)

\* getDefaultState
Init ==
  /\ \E n \in VehicleCounts :
        vehicles = [k \in 1..n |->
                      [id |-> VehicleIds[k], currentLocation |-> "none"]]
  /\ trips = <<>>
  /\ bookings = <<>>
  /\ stopCounter = 0
  /\ tripCounter = 0
  /\ bookingCounter = 0
  /\ calls = [c \in Callers |-> Idle]
  /\ probe = Idle
  /\ callCount = 0

\* The record kept for a call: its inputs, the state it read and what
\* findBestMatch returned (m).
callRecord(request, o, m) ==
  [phase |-> "matched", request |-> request, oracle |-> o,
   snapVehicles |-> vehicles, snapTrips |-> trips, snapBookings |-> bookings,
   ctr0 |-> stopCounter, result |-> m.result, ctr1 |-> m.ctr,
   directRequested |-> m.directRequested,
   resolverConsulted |-> m.resolverConsulted, scans |-> m.scans]

PendingCall(request, o) ==
  callRecord(request, o,
             findBestMatch(request, vehicles, trips, bookings, o, stopCounter))

\* createBooking up to the return of `await findBestMatch(request, state,
\* state.config)`: the call reads the state captured by the callback.  The
\* run has room for limit calls.
CreateBookingWithin(c, request, o, limit) ==
  /\ probe = Idle
  /\ calls[c] = Idle
  /\ callCount < limit
  /\ calls' = [calls EXCEPT ![c] = PendingCall(request, o)]
  /\ stopCounter' = calls'[c].ctr1
  /\ callCount' = callCount + 1
  /\ UNCHANGED <<vehicles, trips, bookings, tripCounter, bookingCounter, probe>>

CreateBookingMatch(c, request, o) == CreateBookingWithin(c, request, o, MaxCalls)

\* A direct call of the exported findBestMatch, observed when it returns;
\* its result is not committed.
FindBestMatchCall(request, o) ==
  /\ probe = Idle
  /\ probe' = PendingCall(request, o)
  /\ stopCounter' = probe'.ctr1
  /\ UNCHANGED <<vehicles, trips, bookings, tripCounter, bookingCounter, calls,
                 callCount>>

\* A direct call during which the routing service never answers: the call
\* stays at `await directionsService.route(request)` of its first routing
\* request (every call makes one: the full route of the first pair tried,
\* or the direct route of the new-trip path) and does not return.
FindBestMatchAwait(request) ==
  /\ probe = Idle
  /\ probe' = [phase |-> "awaiting", request |-> request,
               snapVehicles |-> vehicles, snapTrips |-> trips,
               snapBookings |-> bookings, ctr0 |-> stopCounter]
  /\ UNCHANGED <<vehicles, trips, bookings, stopCounter, tripCounter,
                 bookingCounter, calls, callCount>>

\* The booking built by createBooking from a non-rejected result.
bookingOf(request, matchResult, bookingId, tripId) ==
  [id |-> bookingId, tripId |-> tripId,
   pickupLocation |-> request.pickupLocation,
   dropoffLocation |-> request.dropoffLocation,
   requestedPickupTime |-> request.requestedPickupTime,
   estimatedPickupTime |-> matchResult.estimatedPickupTime,
   estimatedDropoffTime |-> matchResult.estimatedDropoffTime,
   passengerCount |-> request.passengerCount, status |-> "confirmed"]

\* Stops of a new trip: fresh stop ids and the booking id on every stop.
newTripCommitStops(newStops, bookingId, ctr) ==
  [i \in 1..Len(newStops) |->
     [newStops[i] EXCEPT !.id = ctr + i, !.bookingId = bookingId]]

\* Stops of a pooled trip: the booking id on the stops that have none.
poolCommitStops(newStops, bookingId) ==
  [i \in 1..Len(newStops) |->
     IF newStops[i].bookingId = 0
     THEN [newStops[i] EXCEPT !.bookingId = bookingId]
     ELSE newStops[i]]

\* state.trips.find(t => t.id === tripId) on the snapshot of the call.
FindTrip(ts, tripId) ==
  ts[CHOOSE k \in 1..Len(ts) :
       ts[k].id = tripId /\ \A h \in 1..(k - 1) : ts[h].id # tripId]

\* trips after createBooking has handled matchResult, given the trips
\* current at the commit (prev.trips) and the trips of the captured state.
commitTrips(matchResult, prevTrips, snapTrips, bookingId, tripId, ctr) ==
  IF matchResult.type = "new"
  THEN Append(prevTrips,
              [id |-> tripId, vehicleId |-> matchResult.vehicleId,
               status |-> "planned",
               stops |-> newTripCommitStops(matchResult.newStops, bookingId, ctr),
               departureTime |-> matchResult.estimatedPickupTime])
  ELSE IF matchResult.type = "pool"
  THEN LET trip == [FindTrip(snapTrips, matchResult.tripId) EXCEPT
                      !.stops = poolCommitStops(matchResult.newStops, bookingId)]
       IN [k \in 1..Len(prevTrips) |->
             IF prevTrips[k].id = trip.id THEN trip ELSE prevTrips[k]]
  ELSE prevTrips

\* The booking appended whatever the result.
commitBookingsAlways(matchResult, prevBookings, request, bookingId, tripId) ==
  Append(prevBookings,
         bookingOf(request, matchResult, bookingId,
                   IF matchResult.type = "new" THEN tripId
                   ELSE matchResult.tripId))

\* bookings after createBooking has handled matchResult.
commitBookings(matchResult, prevBookings, request, bookingId, tripId) ==
  IF matchResult.type = "rejected" THEN prevBookings
  ELSE Append(prevBookings,
              bookingOf(request, matchResult, bookingId,
                        IF matchResult.type = "new" THEN tripId
                        ELSE matchResult.tripId))

\* The rest of createBooking, after findBestMatch has returned.
CreateBookingCommit(c) ==
  /\ probe = Idle
  /\ calls[c].phase = "matched"
  /\ LET r == calls[c].result
         accepted == r.type # "rejected"
         isNew == r.type = "new"
     IN /\ bookingCounter' = IF accepted THEN bookingCounter + 1 ELSE bookingCounter
        /\ tripCounter' = IF isNew THEN tripCounter + 1 ELSE tripCounter
        /\ stopCounter' = IF isNew THEN stopCounter + Len(r.newStops)
                          ELSE stopCounter
        /\ trips' = commitTrips(r, trips, calls[c].snapTrips,
                                bookingCounter + 1, tripCounter + 1, stopCounter)
        /\ bookings' = commitBookings(r, bookings, calls[c].request,
                                      bookingCounter + 1, tripCounter + 1)
  /\ calls' = [calls EXCEPT ![c] = Idle]
  /\ UNCHANGED <<vehicles, probe, callCount>>

\* cancelBooking, offered by the trip panel for a confirmed booking of a
\* planned trip.
cancelTrips(prevTrips, updatedBookings, booking) ==
  IF booking.tripId = Null THEN prevTrips
  ELSE IF \A b \in Range(updatedBookings) :
             b.tripId = booking.tripId => b.status = "cancelled"
  THEN [k \in 1..Len(prevTrips) |->
          IF prevTrips[k].id = booking.tripId
          THEN [prevTrips[k] EXCEPT !.status = "cancelled"]
          ELSE prevTrips[k]]
  ELSE [k \in 1..Len(prevTrips) |->
          IF prevTrips[k].id = booking.tripId
          THEN [prevTrips[k] EXCEPT !.stops =
                  Resequence(FilterSeq(prevTrips[k].stops,
                                       {st \in Range(prevTrips[k].stops) :
                                          st.bookingId # booking.id}))]
          ELSE prevTrips[k]]

CancelBooking(k) ==
  /\ probe = Idle
  /\ k \in 1..Len(bookings)
  /\ bookings[k].status # "cancelled"
  /\ \E t \in Range(trips) : t.id = bookings[k].tripId /\ t.status = "planned"
  /\ LET updatedBookings == [bookings EXCEPT ![k].status = "cancelled"]
     IN /\ bookings' = updatedBookings
        /\ trips' = cancelTrips(trips, updatedBookings, bookings[k])
  /\ UNCHANGED <<vehicles, stopCounter, tripCounter, bookingCounter, calls,
                 probe, callCount>>

\* startTrip, offered for a planned trip.
StartTrip(k) ==
  /\ probe = Idle
  /\ k \in 1..Len(trips)
  /\ trips[k].status = "planned"
  /\ trips' = [trips EXCEPT ![k].status = "in_progress"]
  /\ UNCHANGED <<vehicles, bookings, stopCounter, tripCounter, bookingCounter,
                 calls, probe, callCount>>

\* completeTrip, offered for a trip in progress.
CompleteTrip(k) ==
  /\ probe = Idle
  /\ k \in 1..Len(trips)
  /\ trips[k].status = "in_progress"
  /\ trips' = [trips EXCEPT ![k].status = "completed"]
  /\ vehicles' = IF Len(trips[k].stops) > 0
                 THEN [v \in 1..Len(vehicles) |->
                         IF vehicles[v].id = trips[k].vehicleId
                         THEN [vehicles[v] EXCEPT !.currentLocation =
                                 trips[k].stops[Len(trips[k].stops)].location]
                         ELSE vehicles[v]]
                 ELSE vehicles
  /\ UNCHANGED <<bookings, stopCounter, tripCounter, bookingCounter, calls,
                 probe, callCount>>

\* The booking system with two sessions.
Next ==
  \/ \E request \in WizardRequests, o \in WizardOracles :
        CreateBookingMatch("c1", request, o)
  \/ \E request \in WizardRequests, o \in WizardOracles :
        /\ calls["c1"] # Idle
        /\ CreateBookingMatch("c2", request, o)
  \/ \E c \in Callers : CreateBookingCommit(c)
  \/ \E k \in 1..MaxCalls : CancelBooking(k)
  \/ \E k \in 1..MaxCalls : StartTrip(k)
  \/ \E k \in 1..MaxCalls : CompleteTrip(k)

Spec == Init /\ [][Next]_vars

\* One session, and direct calls of the engine on the states it produces.
NextEngine ==
  \/ \E request \in WizardRequests, o \in WizardOracles :
        CreateBookingMatch("c1", request, o)
  \/ CreateBookingCommit("c1")
  \/ \E pr \in EngineProbes :
        /\ calls["c1"] = Idle
        /\ FindBestMatchCall(pr[1], pr[2])
  \/ /\ calls["c1"] = Idle
     /\ FindBestMatchAwait(Request("A", "B", 0, 1))
  \/ \E k \in 1..MaxCalls : CancelBooking(k)
  \/ \E k \in 1..MaxCalls : StartTrip(k)
  \/ \E k \in 1..MaxCalls : CompleteTrip(k)

SpecEngine == Init /\ [][NextEngine]_vars

\* Requests submitted while the trips of the pooling scenarios are built:
\* one passenger at the second slot, a full vehicle at the first.
PoolRequests ==
  {Request("A", "B", SlotMinutes * 60, 1),
   Request("A", "B", 0, seatsPerVehicle)}

\* Direct calls of findBestMatch on those trips: one passenger either way,
\* at the first slot, the second, and the fourth.
PoolProbes ==
  {Request(way[1], way[2], t, 1) :
     way \in {<<"A", "B">>, <<"B", "A">>},
     t \in {0, SlotMinutes * 60, 3 * SlotMinutes * 60}}
  \X {NoFailure(d) : d \in Durs}

\* One session, and direct calls of the engine on trips that can take the
\* request of the call.
NextPool ==
  \/ \E request \in PoolRequests, o \in WizardOracles :
        CreateBookingMatch("c1", request, o)
  \/ CreateBookingCommit("c1")
  \/ \E pr \in PoolProbes :
        /\ calls["c1"] = Idle
        /\ FindBestMatchCall(pr[1], pr[2])
  \/ \E k \in 1..MaxCalls : CancelBooking(k)
  \/ \E k \in 1..MaxCalls : StartTrip(k)
  \/ \E k \in 1..MaxCalls : CompleteTrip(k)

SpecPool == Init /\ [][NextPool]_vars

\* Direct calls of findBestMatch that reach findAvailableVehicle on the
\* schedules of the fleet: one passenger either way at each time, with every
\* routing request answered, and with the travel-route requests failing.
FleetProbes ==
  {Request(way[1], way[2], t, 1) :
     way \in {<<"A", "B">>, <<"B", "A">>}, t \in ReqTimes}
  \X ({NoFailure(d) : d \in Durs}
      \cup {[NoFailure(600) EXCEPT !.failTravel = TRUE]})

\* One session, and direct calls of the engine on the vehicles' schedules.
NextFleet ==
  \/ \E request \in WizardRequests, o \in WizardOracles :
        CreateBookingMatch("c1", request, o)
  \/ CreateBookingCommit("c1")
  \/ \E pr \in FleetProbes :
        /\ calls["c1"] = Idle
        /\ FindBestMatchCall(pr[1], pr[2])
  \/ \E k \in 1..MaxCalls : CancelBooking(k)
  \/ \E k \in 1..MaxCalls : StartTrip(k)
  \/ \E k \in 1..MaxCalls : CompleteTrip(k)

SpecFleet == Init /\ [][NextFleet]_vars

\* Requests of one passenger that pool into, follow and precede each other
\* on the vehicles, with the routing answers while they are booked.
ChainRequests ==
  {Request("A", "B", 0, 1),
   Request("B", "A", SlotMinutes * 60, 1),
   Request("A", "B", 2 * SlotMinutes * 60, 1)}

ChainOracles == {NoFailure(780)}

\* One session booking, cancelling and running trips, one operation after
\* the other: nothing happens while a createBooking call is under way.
NextChain ==
  \/ \E request \in ChainRequests, o \in ChainOracles :
        CreateBookingWithin("c1", request, o, MaxChain)
  \/ CreateBookingCommit("c1")
  \/ \E k \in 1..MaxChain : calls["c1"] = Idle /\ CancelBooking(k)
  \/ \E k \in 1..MaxChain : calls["c1"] = Idle /\ StartTrip(k)
  \/ \E k \in 1..MaxChain : calls["c1"] = Idle /\ CompleteTrip(k)

SpecChain == Init /\ [][NextChain]_vars

\* ------------------------------------------------------------ properties
\* The findBestMatch calls whose return is on record: the createBooking
\* calls awaiting their commit and the direct call.
Observed == {calls[c] : c \in {c \in Callers : calls[c].phase = "matched"}}
            \cup (IF probe.phase = "matched" THEN {probe} ELSE {})

\* Confirmed bookings of the state a call read.
SnapConfirmed(r) ==
  {b \in Range(r.snapBookings) : b.status = "confirmed"}

\* Passengers a stop of a returned list stands for: the request's for the
\* stops of the new booking, the booking's for the others.
StopPassengers(r, stop) ==
  IF stop.bookingId = 0 THEN r.request.passengerCount
  ELSE LET bs == {b \in SnapConfirmed(r) : b.id = stop.bookingId}
       IN IF bs = {} THEN 0 ELSE (CHOOSE b \in bs : TRUE).passengerCount

\* Passengers aboard after stop i of the returned list.
OnBoardAfter(r, i) ==
  SumSeq([j \in 1..i |->
            IF r.result.newStops[j].type = "pickup"
            THEN StopPassengers(r, r.result.newStops[j])
            ELSE 0 - StopPassengers(r, r.result.newStops[j])])

\* C1: for every pool or new result, the number of passengers aboard after
\* each stop of the returned stop list is at most seatsPerVehicle.
C1_CapacityRespected ==
  \A r \in Observed :
     r.result.type \in {"pool", "new"} =>
        \A i \in 1..Len(r.result.newStops) : OnBoardAfter(r, i) <= seatsPerVehicle

\* The evaluateInsertion call the scan of trip t makes for the call r at a
\* position pair.
InsertionResult(r, t, pair) ==
  LET tripBookings == tripBookingsOf(t, r.snapBookings)
  IN evaluateInsertion(t, sortStopsBySequence(t.stops), tripBookings, r.request,
                       pair[1], pair[2], existingPassengerCountOf(tripBookings),
                       r.oracle, r.ctr0)

\* The pairs the two loops of tryInsertIntoTrip visit for a trip.
VisitedPairs(t) ==
  {pair \in (0..Len(t.stops)) \X (1..(Len(t.stops) + 1)) : pair[1] < pair[2]}

\* Dropoff stops of a confirmed booking in a stop list.
DropoffsOf(stops, b) ==
  {k \in 1..Len(stops) : stops[k].bookingId = b.id /\ stops[k].type = "dropoff"}

\* C2: in every accepted insertion, each confirmed booking already on the
\* trip is dropped off no later than its estimatedDropoffTime plus
\* maxDetourMinutes.
C2_ExistingDetourBounded ==
  \A r \in Observed :
     \A t \in {t \in Range(r.snapTrips) : t.status = "planned"} :
        \A pair \in VisitedPairs(t) :
           LET e == InsertionResult(r, t, pair)
           IN e.ok =>
                \A b \in {b \in SnapConfirmed(r) : b.tripId = t.id} :
                   \A k \in DropoffsOf(e.newStops, b) :
                      e.newStops[k].scheduledTime
                        <= addMinutes(b.estimatedDropoffTime, maxDetourMinutes)

\* A direct call returned a pool result for a trip carrying a confirmed
\* booking.
C2_Witness ==
  /\ probe.phase = "matched"
  /\ probe.result.type = "pool"
  /\ \E b \in SnapConfirmed(probe) :
        /\ b.tripId = probe.result.tripId
        /\ \E k \in DropoffsOf(probe.result.newStops, b) :
              probe.result.newStops[k].scheduledTime > b.estimatedDropoffTime

\* C3: the dropoff time of a pool result is no later than its pickup time
\* plus the direct travel time from the pickup to the dropoff place plus
\* maxDetourMinutes, whatever the routing calls answered.
C3_NewPassengerDetourBounded ==
  \A r \in Observed :
     r.result.type = "pool" =>
        r.result.estimatedDropoffTime
          <= addMinutes(addSeconds(r.result.estimatedPickupTime,
                                   LegSecs(r.request.pickupLocation,
                                           r.request.dropoffLocation, r.oracle)),
                        maxDetourMinutes)

\* C4: a createBooking call that commits a booking commits it to the trips
\* and bookings its findBestMatch call read: no other commit or state
\* change falls between the two.
C4_CommitOnFreshSnapshot ==
  [][\A c \in Callers :
        (/\ calls[c].phase = "matched"
         /\ calls[c].result.type # "rejected"
         /\ calls'[c] = Idle)
        => /\ calls[c].snapTrips = trips
           /\ calls[c].snapBookings = bookings]_vars

\* C5: two findBestMatch calls on the same snapshot, request and routing
\* answers return the same MatchResult, every field of every stop included.
C5_Deterministic ==
  \A r1, r2 \in Observed :
     (/\ r1.request = r2.request
      /\ r1.oracle = r2.oracle
      /\ r1.snapVehicles = r2.snapVehicles
      /\ r1.snapTrips = r2.snapTrips
      /\ r1.snapBookings = r2.snapBookings)
     => r1.result = r2.result

\* C6: a findBestMatch call leaves vehicles, trips and bookings as they
\* were, and so does a createBooking call whose result is rejected.
C6_EngineReadOnly ==
  [][/\ \A c \in Callers :
           (calls[c] = Idle /\ calls'[c] # Idle)
           => UNCHANGED <<vehicles, trips, bookings>>
     /\ (probe = Idle /\ probe' # Idle)
           => UNCHANGED <<vehicles, trips, bookings>>
     /\ \A c \in Callers :
           (/\ calls[c].phase = "matched"
            /\ calls[c].result.type = "rejected"
            /\ calls'[c] = Idle)
           => UNCHANGED <<vehicles, trips, bookings>>]_vars

\* A createBooking call holds a rejected result while trips and bookings
\* exist.
C6_Witness ==
  \E c \in Callers :
     /\ calls[c].phase = "matched"
     /\ calls[c].result.type = "rejected"
     /\ Len(trips) > 0
     /\ Len(bookings) > 0

\* Some planned trip of the snapshot within 30 minutes of the requested
\* pickup accepts the request at some position pair.
HasPoolCandidate(r) ==
  \E t \in Range(r.snapTrips) :
     /\ t.status = "planned"
     /\ t.departureTime <= r.request.requestedPickupTime + 30 * 60
     /\ TripEnd(t) >= r.request.requestedPickupTime - 30 * 60
     /\ \E pair \in VisitedPairs(t) : InsertionResult(r, t, pair).ok

\* C7: the result is pool exactly when some planned time-compatible trip
\* has an accepted position pair, idle vehicles notwithstanding, and the
\* new-trip path is entered exactly when there is none.
C7_PoolPreferred ==
  \A r \in Observed :
     /\ (r.result.type = "pool") <=> HasPoolCandidate(r)
     /\ r.directRequested <=> ~HasPoolCandidate(r)

\* A pool result was returned while some vehicle of the fleet had no trip
\* at all.
C7_Witness ==
  \E r \in Observed :
     /\ r.result.type = "pool"
     /\ \E k \in 1..Len(r.snapVehicles) :
           \A t \in Range(r.snapTrips) : t.vehicleId # r.snapVehicles[k].id

\* The trip that keeps vehicle v from the request of call r: the trip of v
\* overlapping the window of the new trip, or else the last trip of v
\* ending by the requested pickup.
BlockingOrPriorTrip(r, v) ==
  LET vehicleTrips == vehicleTripsOf(v.id, r.snapTrips)
      requestedTime == r.request.requestedPickupTime
      newTripEnd ==
        newTripEndOf(requestedTime,
                     LegSecs(r.request.pickupLocation,
                             r.request.dropoffLocation, r.oracle))
      overlappingTrip == findOverlappingTrip(vehicleTrips, requestedTime, newTripEnd)
  IN IF overlappingTrip # NoTrip THEN overlappingTrip
     ELSE findPriorTrip(vehicleTrips, requestedTime)

\* End of that trip + travel time to the pickup + bufferMinutes, for the
\* vehicles that have such a trip and a travel route.
AvailabilityEstimates(r) ==
  {addMinutes(addSeconds(TripEnd(BlockingOrPriorTrip(r, v)),
                         LegSecs(BlockingOrPriorTrip(r, v).stops[
                                   Len(BlockingOrPriorTrip(r, v).stops)].location,
                                 r.request.pickupLocation, r.oracle)),
              bufferMinutes) :
     v \in {v \in Range(r.snapVehicles) :
              /\ BlockingOrPriorTrip(r, v) # NoTrip
              /\ Len(BlockingOrPriorTrip(r, v).stops) > 0
              /\ ~r.oracle.failTravel}}

\* C8: when no vehicle is available, earliestAvailableTime is the least of
\* the vehicles' estimates (end of the blocking or prior trip + travel time
\* to the pickup + bufferMinutes), and is absent only when there is none.
C8_EarliestIsMinEstimate ==
  \A r \in Observed :
     (r.result.type = "rejected" /\ r.resolverConsulted) =>
        IF AvailabilityEstimates(r) = {}
        THEN r.result.earliestAvailableTime = Null
        ELSE /\ r.result.earliestAvailableTime \in AvailabilityEstimates(r)
             /\ \A e \in AvailabilityEstimates(r) :
                   r.result.earliestAvailableTime <= e

\* C9: a new result names the vehicle the resolver returned, picks up at
\* the requested time, drops off at the requested time plus the direct
\* travel time, and has exactly two stops, the pickup with sequence 0 and
\* the dropoff with sequence 1, at those places and times.
C9_NewTripShape ==
  \A r \in Observed :
     r.result.type = "new" =>
        LET requestedTime == r.request.requestedPickupTime
            direct == LegSecs(r.request.pickupLocation,
                              r.request.dropoffLocation, r.oracle)
            found == findAvailableVehicle(requestedTime, direct,
                                          r.request.pickupLocation,
                                          r.snapVehicles, r.snapTrips, r.oracle)
            stops == r.result.newStops
        IN /\ found.vehicle # Null
           /\ r.result.vehicleId = r.snapVehicles[found.vehicle].id
           /\ r.result.estimatedPickupTime = requestedTime
           /\ r.result.estimatedDropoffTime = requestedTime + direct
           /\ Len(stops) = 2
           /\ stops[1].type = "pickup" /\ stops[1].sequence = 0
           /\ stops[1].location = r.request.pickupLocation
           /\ stops[1].scheduledTime = requestedTime
           /\ stops[2].type = "dropoff" /\ stops[2].sequence = 1
           /\ stops[2].location = r.request.dropoffLocation
           /\ stops[2].scheduledTime = requestedTime + direct

\* A new result on the second vehicle of the fleet, the first being taken.
C9_Witness ==
  \E r \in Observed :
     /\ r.result.type = "new"
     /\ Len(r.snapTrips) > 0
     /\ r.result.vehicleId = VehicleIds[2]

\* A stop without its scheduled time and sequence number.
StopIdentity(stop) ==
  [id |-> stop.id, location |-> stop.location, type |-> stop.type,
   bookingId |-> stop.bookingId]

\* C10: a pool result names a trip of the snapshot and its vehicle; its stop
\* list has two stops more than the trip, holds the trip's stops once each
\* in their order, the new pickup before the new dropoff, and is numbered
\* 0 .. n-1.
C10_PoolShape ==
  \A r \in Observed :
     r.result.type = "pool" =>
        \E t \in Range(r.snapTrips) :
           LET stops == r.result.newStops
               old == FilterSeq(stops, {st \in Range(stops) : st.bookingId # 0})
               new == FilterSeq(stops, {st \in Range(stops) : st.bookingId = 0})
               before == sortStopsBySequence(t.stops)
           IN /\ t.id = r.result.tripId
              /\ t.vehicleId = r.result.vehicleId
              /\ Len(stops) = Len(t.stops) + 2
              /\ [i \in 1..Len(old) |-> StopIdentity(old[i])]
                   = [i \in 1..Len(before) |-> StopIdentity(before[i])]
              /\ Len(new) = 2
              /\ new[1].type = "pickup" /\ new[2].type = "dropoff"
              /\ \A i \in 1..Len(stops) : stops[i].sequence = i - 1

\* A pool result whose new dropoff comes before a stop of the trip.
C10_Witness ==
  \E r \in Observed :
     /\ r.result.type = "pool"
     /\ \E i, j \in 1..Len(r.result.newStops) :
           /\ i < j
           /\ r.result.newStops[i].bookingId = 0
           /\ r.result.newStops[i].type = "dropoff"
           /\ r.result.newStops[j].bookingId # 0

\* C11: when no trip yields a candidate and the direct route request of
\* the new-trip path fails, the result is rejected with the reason "Could
\* not calculate route", names no vehicle, has no stops, and the vehicle
\* resolver is not consulted.
C11_RouteFailureRejects ==
  \A r \in Observed :
     (r.oracle.failNew /\ ~HasPoolCandidate(r)) =>
        /\ r.result.type = "rejected"
        /\ r.result.reason = "Could not calculate route"
        /\ r.result.vehicleId = NoVehicle
        /\ r.result.newStops = <<>>
        /\ ~r.resolverConsulted

\* The direct route failed for a call made while a planned trip existed
\* that took no insertion.
C11_Witness ==
  \E r \in Observed :
     /\ r.oracle.failNew
     /\ r.result.type = "rejected"
     /\ \E k \in 1..Len(r.scans) : ~r.scans[k].accepted

\* Ids of the trips a call tried for insertion.
TriedIds(r) == {r.scans[k].tripId : k \in 1..Len(r.scans)}

PairRank(t, p) ==
  Cardinality({q \in VisitedPairs(t) :
                 q[1] < p[1] \/ (q[1] = p[1] /\ q[2] <= p[2])})

\* The scan record s of trip t agrees with the set of pairs accepted for t:
\* the candidate is the accepted pair of least rank and the pairs up to it
\* are the ones evaluated; with no accepted pair every pair is evaluated.
ScanIsFirstFit(s, t, accepted) ==
  IF accepted = {}
  THEN ~s.accepted /\ s.evaluated = Cardinality(VisitedPairs(t))
  ELSE /\ s.accepted
       /\ <<s.pickupPos, s.dropoffPos>> \in accepted
       /\ \A p \in accepted : PairRank(t, <<s.pickupPos, s.dropoffPos>>) <= PairRank(t, p)
       /\ s.evaluated = PairRank(t, <<s.pickupPos, s.dropoffPos>>)

\* C13: for each trip tried, the candidate kept is the one of the first
\* pair, in the order pickupPos ascending then dropoffPos ascending, that
\* evaluateInsertion accepts; no pair after it is evaluated (two stop ids
\* are drawn per evaluation); and each trip is tried once.
C13_FirstFit ==
  \A r \in Observed :
     /\ Cardinality(TriedIds(r)) = Len(r.scans)
     /\ \A k \in 1..Len(r.scans) :
           \A t \in {t \in Range(r.snapTrips) : t.id = r.scans[k].tripId} :
              ScanIsFirstFit(r.scans[k], t,
                             {p \in VisitedPairs(t) : InsertionResult(r, t, p).ok})
     /\ r.ctr1 - r.ctr0 =
          2 * SumSeq([k \in 1..Len(r.scans) |-> r.scans[k].evaluated])
          + (IF r.result.type = "new" THEN 2 ELSE 0)

\* A trip took the request at a pair that is not the first one visited, and
\* another pair after it would have been accepted too.
C13_Witness ==
  \E r \in Observed :
     \E k \in 1..Len(r.scans) :
        /\ r.scans[k].accepted
        /\ r.scans[k].evaluated > 1
        /\ \E t \in {t \in Range(r.snapTrips) : t.id = r.scans[k].tripId} :
              \E p \in VisitedPairs(t) :
                 /\ PairRank(t, p) > r.scans[k].evaluated
                 /\ InsertionResult(r, t, p).ok

\* Passengers of the confirmed bookings of the trip with the given id in
\* the state the call read.
ConfirmedPassengers(r, tripId) ==
  SumSeq([k \in 1..Len(r.snapBookings) |->
            IF r.snapBookings[k].tripId = tripId
               /\ r.snapBookings[k].status = "confirmed"
            THEN r.snapBookings[k].passengerCount ELSE 0])

\* C14: the trip named by a pool result has the greatest number of
\* confirmed passengers, before the insertion, among the trips that yielded
\* a candidate in the call.
C14_FullestTripWins ==
  \A r \in Observed :
     r.result.type = "pool" =>
        \A k \in 1..Len(r.scans) :
           r.scans[k].accepted =>
              ConfirmedPassengers(r, r.scans[k].tripId)
                <= ConfirmedPassengers(r, r.result.tripId)

\* A pool result naming a trip tried after another trip that yielded a
\* candidate with fewer confirmed passengers.
C14_Witness ==
  \E r \in Observed :
     /\ r.result.type = "pool"
     /\ Len(r.scans) > 1
     /\ r.scans[1].accepted
     /\ r.scans[1].tripId # r.result.tripId
     /\ ConfirmedPassengers(r, r.scans[1].tripId)
          < ConfirmedPassengers(r, r.result.tripId)

\* The stop list evaluateInsertion rebuilds in the call r for trip t at a
\* position pair.
RebuiltFor(r, t, pair) ==
  rebuiltStops(sortStopsBySequence(t.stops), pair[1], pair[2],
               newPickupStopOf(r.request, pair[1], r.ctr0),
               newDropoffStopOf(r.request, pair[2], r.ctr0))

\* C15: in the rebuilt stop list of every position pair of a tried trip,
\* the new pickup stands at index pickupPos and the new dropoff at index
\* dropoffPos (0-based; RebuiltFor is 1-based).
C15_InsertedAtPositions ==
  \A r \in Observed :
     \A t \in {t \in Range(r.snapTrips) : t.id \in TriedIds(r)} :
        \A pair \in VisitedPairs(t) :
           /\ RebuiltFor(r, t, pair)[pair[1] + 1].id = r.ctr0 + 1
           /\ RebuiltFor(r, t, pair)[pair[2] + 1].id = r.ctr0 + 2

\* Departure time of the trip a pool result names.
PoolDeparture(r) ==
  (CHOOSE t \in Range(r.snapTrips) : t.id = r.result.tripId).departureTime

\* C16: in the stop list of every accepted insertion the first stop is
\* scheduled at the trip's departure time, and every later stop at the time
\* of the stop before it plus the leg between them plus minutesPerStop.
C16_ScheduleFromDeparture ==
  \A r \in Observed :
     r.result.type = "pool" =>
        /\ r.result.newStops[1].scheduledTime = PoolDeparture(r)
        /\ \A i \in 2..Len(r.result.newStops) :
              r.result.newStops[i].scheduledTime =
                addMinutes(addSeconds(r.result.newStops[i - 1].scheduledTime,
                                      LegSecs(r.result.newStops[i - 1].location,
                                              r.result.newStops[i].location,
                                              r.oracle)),
                           minutesPerStop)

\* C17: when the direct-route request of evaluateInsertion fails, no
\* position pair is accepted: no trip yields a candidate and the result is
\* not a pool.
C17_DirectFailureRejects ==
  \A r \in Observed :
     r.oracle.failDirect =>
        /\ r.result.type # "pool"
        /\ \A k \in 1..Len(r.scans) : ~r.scans[k].accepted

\* The pairs of trip t whose full-route request was made and failed in the
\* scan recorded as s during the call r.
FailedPairs(r, t, s) ==
  {p \in VisitedPairs(t) : p \in r.oracle.failFull /\ PairRank(t, p) <= s.evaluated}

\* C18: a full-route request that fails rejects its own position pair only:
\* the pair is not the candidate, the scan goes on to the pairs after it and
\* keeps a later pair that is accepted, the trips after it are still tried,
\* and the call returns a pool, new or rejected result.
C18_RouteFailureIsLocal ==
  \A r \in Observed :
     /\ r.result.type \in {"pool", "new", "rejected"}
     /\ Len(r.scans) =
          Cardinality({t \in Range(r.snapTrips) :
                         /\ t.status = "planned"
                         /\ TimeCompatible(t, r.request.requestedPickupTime)})
     /\ \A k \in 1..Len(r.scans) :
           \A t \in {t \in Range(r.snapTrips) : t.id = r.scans[k].tripId} :
              \A p \in FailedPairs(r, t, r.scans[k]) :
                 /\ <<r.scans[k].pickupPos, r.scans[k].dropoffPos>> # p
                 /\ PairRank(t, p) < Cardinality(VisitedPairs(t)) =>
                       r.scans[k].evaluated > PairRank(t, p)
                 /\ (\E q \in VisitedPairs(t) : InsertionResult(r, t, q).ok) =>
                       r.scans[k].accepted

\* A call in which a full-route request of a trip failed, every other
\* routing request was answered, and a later pair of the same trip was
\* accepted.
C18_Witness ==
  /\ probe.phase = "matched"
  /\ ~probe.oracle.failDirect
  /\ \E k \in 1..Len(probe.scans) :
        /\ probe.scans[k].accepted
        /\ \E t \in Range(probe.snapTrips) :
              /\ t.id = probe.scans[k].tripId
              /\ FailedPairs(probe, t, probe.scans[k]) # {}

\* C19: every findBestMatch call returns a result of type pool, new or
\* rejected, whatever the routing service does: no call is left at a
\* routing request that is never answered.
C19_EveryCallReturns ==
  probe # Idle =>
     /\ probe.phase = "matched"
     /\ probe.result.type \in {"pool", "new", "rejected"}

\* C20: the pickup time of every accepted insertion, and so of every pool
\* result, is within 15 minutes of the requested pickup time, before or
\* after.
C20_PickupNearRequest ==
  \A r \in Observed :
     /\ r.result.type = "pool" =>
           /\ r.result.estimatedPickupTime - r.request.requestedPickupTime <= 15 * 60
           /\ r.request.requestedPickupTime - r.result.estimatedPickupTime <= 15 * 60
     /\ \A k \in 1..Len(r.scans) :
           r.scans[k].accepted =>
              /\ r.scans[k].estimatedPickupTime - r.request.requestedPickupTime <= 15 * 60
              /\ r.request.requestedPickupTime - r.scans[k].estimatedPickupTime <= 15 * 60

\* A pool result picking up before the requested time, on a trip tried
\* together with one that has no pair within the 15 minutes.
C20_Witness ==
  \E r \in Observed :
     /\ r.result.type = "pool"
     /\ r.result.estimatedPickupTime < r.request.requestedPickupTime
     /\ \E k \in 1..Len(r.scans) : ~r.scans[k].accepted

\* Trips of the state the call r read that keep vehicle vehicleId busy:
\* its planned and in-progress trips.
ActiveOn(r, vehicleId) ==
  {t \in Range(r.snapTrips) :
     t.vehicleId = vehicleId /\ t.status \in {"planned", "in_progress"}}

\* End of the candidate window of the call r: requested pickup + direct
\* travel time + minutesPerStop.
WindowEnd(r) ==
  r.request.requestedPickupTime
  + LegSecs(r.request.pickupLocation, r.request.dropoffLocation, r.oracle)
  + minutesPerStop * 60

\* The window of trip t overlaps the candidate window of the call r.
OverlapsWindow(r, t) ==
  t.departureTime < WindowEnd(r) /\ TripEnd(t) > r.request.requestedPickupTime

\* C21: the vehicle of a new result has no planned or in-progress trip
\* whose window [departure, last-stop time] overlaps the candidate window.
C21_ReturnedVehicleNotBusy ==
  \A r \in Observed :
     r.result.type = "new" =>
        \A t \in ActiveOn(r, r.result.vehicleId) : ~OverlapsWindow(r, t)

\* A new result on the second vehicle while a trip of the first overlaps
\* the candidate window.
C21_Witness ==
  \E r \in Observed :
     /\ r.result.type = "new"
     /\ r.result.vehicleId = VehicleIds[2]
     /\ \E t \in ActiveOn(r, VehicleIds[1]) : OverlapsWindow(r, t)

\* The prior trips of a vehicle for the call r: its active trips ending at
\* or before the requested pickup with the latest end among them.
PriorTrips(r, vehicleId) ==
  {t \in ActiveOn(r, vehicleId) :
     /\ TripEnd(t) <= r.request.requestedPickupTime
     /\ \A u \in ActiveOn(r, vehicleId) :
           TripEnd(u) <= r.request.requestedPickupTime => TripEnd(u) <= TripEnd(t)}

\* The vehicle can come from the end of trip t to the pickup of the call r
\* bufferMinutes before the requested time: the travel-route request is
\* answered and the arrival is early enough.
ArrivesInTime(r, t) ==
  /\ ~r.oracle.failTravel
  /\ TripEnd(t) + LegSecs(t.stops[Len(t.stops)].location,
                          r.request.pickupLocation, r.oracle)
       <= r.request.requestedPickupTime - bufferMinutes * 60

NextTrips(r, vehicleId) ==
  {t \in ActiveOn(r, vehicleId) :
     /\ t.departureTime > WindowEnd(r)
     /\ \A u \in ActiveOn(r, vehicleId) :
           u.departureTime > WindowEnd(r) => t.departureTime <= u.departureTime}

Passes(r, vehicleId) ==
  /\ \A t \in ActiveOn(r, vehicleId) : ~OverlapsWindow(r, t)
  /\ \A t \in PriorTrips(r, vehicleId) : ArrivesInTime(r, t)
  /\ \A t \in NextTrips(r, vehicleId) :
        t.departureTime - WindowEnd(r) >= bufferMinutes * 60

C27_NoTripRightAfterWindow ==
  \A r \in Observed :
     r.result.type = "new" =>
        \A t \in ActiveOn(r, r.result.vehicleId) :
           ~(/\ t.departureTime >= WindowEnd(r)
             /\ t.departureTime - WindowEnd(r) < bufferMinutes * 60)

\* C25: in every trip, the stops taken in sequence order have
\* non-decreasing scheduled times, after any bookings and cancellations.
C25_TimesNonDecreasing ==
  \A t \in Range(trips) :
     \A i \in 1..(Len(t.stops) - 1) :
        sortStopsBySequence(t.stops)[i].scheduledTime
          <= sortStopsBySequence(t.stops)[i + 1].scheduledTime

\* A trip that took two bookings by pooling and lost the stops of one
\* booking to a cancellation.
C25_Witness ==
  \E t \in Range(trips) :
     /\ Len(t.stops) >= 4
     /\ \E b \in Range(bookings) :
           /\ b.tripId = t.id
           /\ b.status = "cancelled"
           /\ \A k \in 1..Len(t.stops) : t.stops[k].bookingId # b.id

\* Two trips keep the same vehicle busy over overlapping windows.
TripsOverlap(t, u) ==
  /\ t.id # u.id
  /\ t.vehicleId = u.vehicleId
  /\ t.status \in {"planned", "in_progress"}
  /\ u.status \in {"planned", "in_progress"}
  /\ t.departureTime < TripEnd(u)
  /\ u.departureTime < TripEnd(t)

\* C26: no vehicle has two planned or in-progress trips whose windows
\* [departureTime, last stop's scheduled time] overlap.
C26_NoOverlapOnVehicle ==
  \A t \in Range(trips) : \A u \in Range(trips) : ~TripsOverlap(t, u)

\* Dropoff stops of booking b on its trip.
CommittedDropoffs(b) ==
  {st \in UNION {Range(t.stops) : t \in {t \in Range(trips) :
                                           t.id = b.tripId /\ t.status = "planned"}} :
     st.bookingId = b.id /\ st.type = "dropoff"}

\* Every confirmed booking of a planned trip is dropped off no later than
\* its own estimatedDropoffTime plus maxDetourMinutes.
DelayBounded ==
  \A b \in Range(bookings) :
     b.status = "confirmed" =>
        \A st \in CommittedDropoffs(b) :
           st.scheduledTime <= b.estimatedDropoffTime + maxDetourMinutes * 60

\* C29: after every step, each confirmed booking of a planned trip is
\* dropped off at most maxDetourMinutes after its own estimatedDropoffTime,
\* and no step rewrites the estimated times of a booking already made.
C29_DelayDoesNotAccumulate ==
  [][/\ DelayBounded'
     /\ \A k \in 1..Len(bookings) :
           /\ bookings'[k].estimatedPickupTime = bookings[k].estimatedPickupTime
           /\ bookings'[k].estimatedDropoffTime = bookings[k].estimatedDropoffTime]_vars

\* A booking dropped off later than first estimated, on a trip that took
\* two more bookings after it.
C29_Witness ==
  \E b \in Range(bookings) :
     /\ b.status = "confirmed"
     /\ Cardinality({c \in Range(bookings) : c.tripId = b.tripId /\ c.id > b.id}) >= 2
     /\ \E st \in CommittedDropoffs(b) : st.scheduledTime > b.estimatedDropoffTime

\* C28: the earliestAvailableTime of a rejected result is strictly later
\* than the requested pickup time.
C28_EarliestAfterRequest ==
  \A r \in Observed :
     (r.result.type = "rejected" /\ r.result.earliestAvailableTime # Null) =>
        r.result.earliestAvailableTime > r.request.requestedPickupTime

\* C30: for every trip tried, the position pairs produce every stop order
\* that keeps the existing stops in their order and has the new pickup
\* before the new dropoff: for all places a < b of the rebuilt list some
\* pair puts the new pickup at a and the new dropoff at b.
C30_EveryOrderProduced ==
  \A r \in Observed :
     \A t \in {t \in Range(r.snapTrips) : t.id \in TriedIds(r)} :
        \A a \in 1..(Len(t.stops) + 1) :
           \A b \in (a + 1)..(Len(t.stops) + 2) :
              \E pair \in VisitedPairs(t) :
                 /\ RebuiltFor(r, t, pair)[a].id = r.ctr0 + 1
                 /\ RebuiltFor(r, t, pair)[b].id = r.ctr0 + 2

====
